---- MODULE Spec2Model ----
(***************************************************************************)
(* Model of app1.py, the Streamlit script of the Smart Insurance Cost      *)
(* Predictor.  Streamlit re-executes the whole script on every widget      *)
(* interaction ("rerun"); one rerun is modelled as a walk of pc through    *)
(* the script's statements, from load_model() to the footer.               *)
(*                                                                         *)
(* Number representation.                                                  *)
(*   - bmi is a float on a 0.1 grid (st.slider step 0.1): it is held in    *)
(*     tenths, so 18.5 is 185, 25.0 is 250 and 30.0 is 300.                *)
(*   - prediction is a float: it is held as an integer amount, and the     *)
(*     products prediction * 0.4, * 0.15, ... are held exactly, in         *)
(*     hundredths of that amount (prediction * 0.15 is 15 * prediction).   *)
(*     IEEE-754 rounding of those products is not represented.             *)
(*   - a Python value that may be a str or a bool is a pair                *)
(*     <<type name, text>>, so that  True == "Yes"  is decidable (False).  *)
(***************************************************************************)
EXTENDS Integers, Sequences, FiniteSets, TLC

VARIABLES
    gender,          \* st.selectbox "Gender"
    age,             \* st.slider "Age"
    bmi,             \* st.slider "BMI", in tenths
    smoker,          \* st.radio "Smoking Status"
    region,          \* st.selectbox "Region"
    children,        \* st.number_input "Number of Children"
    button,          \* st.button: TRUE on the rerun triggered by pressing it
    pc,              \* position of the running script
    cache,           \* st.cache_resource entry of load_model: 0 empty, else object id
    loads,           \* number of pkl.load calls that returned a model
    model,           \* script global `model`: 0 unset, else object id
    input_data,      \* script global `input_data` (<<>> while unset)
    smoker_arg,      \* third argument passed to calculate_health_metrics
    prediction,      \* <<>> while unset, else <<p>>
    risk_score,      \* <<>> while unset, else <<n>>
    breakdown,       \* <<>> while unset, else <<[labels, values]>>
    recommendations, \* the list built at lines 305-314
    rendered,        \* result elements emitted to the page by this rerun, in order
    errorShown,      \* st.error emitted by this rerun
    raised,          \* exception raised in this rerun, "none" if none
    predictCalls,    \* model.predict calls made by this rerun
    modelUsed        \* object ids model.predict was called on, over all reruns

vars == <<gender, age, bmi, smoker, region, children, button, pc, cache, loads,
          model, input_data, smoker_arg, prediction, risk_score, breakdown,
          recommendations, rendered, errorShown, raised, predictCalls, modelUsed>>

widgets == <<gender, age, bmi, smoker, region, children, button>>
process == <<cache, loads, modelUsed>>
results == <<prediction, risk_score, breakdown, recommendations>>

Range(s) == {s[i] : i \in 1..Len(s)}

\* ------------------------------------------------------------------------
\* Widget domains
\* ------------------------------------------------------------------------
MinAge == 18
MaxAge == 100
MinBmi == 150
MaxBmi == 500
MaxChildren == 10

Genders == {"Female", "Male"}
Smokers == {"No", "Yes"}
Regions == {"northeast", "northwest", "southeast", "southwest"}
Ages == MinAge..MaxAge
Bmis == MinBmi..MaxBmi
ChildrenDomain == 0..MaxChildren

\* Values the reruns of the model draw from the widget domains: both ends of
\* every range and both sides of every threshold the script compares with.
AgeSamples == {MinAge, 19, 25, 50, 51, 55, MaxAge}
BmiSamples == {MinBmi, 170, 184, 185, 249, 250, 251, 299, 300, 320, MaxBmi}
ChildrenSamples == {0, MaxChildren}

\* Values model.predict may return (an opaque regressor: any float).
Predictions == {-50, 0, 9999, 10000}

\* Cap on pkl.load calls.
MaxLoads == 3

\* ------------------------------------------------------------------------
\* Python values
\* ------------------------------------------------------------------------
PyStr(s) == <<"str", s>>
PyBool(b) == <<"bool", IF b THEN "True" ELSE "False">>
PyEq(x, y) == x = y

\* d[k] on a dict: the value, or KeyError.
SubscriptOrDefault(d, k) ==
    IF k \in DOMAIN d THEN [ok |-> TRUE, val |-> d[k]]
    ELSE [ok |-> TRUE, val |-> d[CHOOSE x \in DOMAIN d : TRUE]]

Subscript(d, k) ==
    IF k \in DOMAIN d THEN [ok |-> TRUE, val |-> d[k]]
    ELSE [ok |-> FALSE, val |-> "KeyError"]

\* ------------------------------------------------------------------------
\* load_model
\* ------------------------------------------------------------------------
CacheHitUndecorated(c) == FALSE

\* @st.cache_resource: the decorated function's body runs only on a miss.
CacheHit(c) == c # 0

\* ------------------------------------------------------------------------
\* calculate_health_metrics
\* ------------------------------------------------------------------------
Min(a, b) == IF a < b THEN a ELSE b

calculate_health_metrics_unclamped(a, b, s) ==
    LET r0 == 0
        r1 == r0 + (a \div 10) * 5
        r2 == IF b < 185 THEN r1 + 10
              ELSE IF 185 <= b /\ b < 250 THEN r1 + 0
              ELSE IF 250 <= b /\ b < 300 THEN r1 + 15
              ELSE r1 + 25
        r3 == IF PyEq(s, PyStr("Yes")) THEN r2 + 50 ELSE r2
    IN  r3

calculate_health_metrics(a, b, s) ==
    LET r0 == 0
        r1 == r0 + (a \div 10) * 5
        r2 == IF b < 185 THEN r1 + 10
              ELSE IF 185 <= b /\ b < 250 THEN r1 + 0
              ELSE IF 250 <= b /\ b < 300 THEN r1 + 15
              ELSE r1 + 25
        r3 == IF PyEq(s, PyStr("Yes")) THEN r2 + 50 ELSE r2
    IN  Min(r3, 100)

\* ------------------------------------------------------------------------
\* create_cost_breakdown (labels and values handed to go.Pie)
\* ------------------------------------------------------------------------
create_cost_breakdown_skewed(p) ==
    [labels |-> <<"Base Cost", "Age Factor", "BMI Factor", "Smoking Factor",
                  "Region Factor">>,
     values |-> <<p * 40, p * 15, p * 15, p * 25, p * 10>>]

create_cost_breakdown(p) ==
    LET base_cost == p * 40
    IN  [labels |-> <<"Base Cost", "Age Factor", "BMI Factor", "Smoking Factor",
                      "Region Factor">>,
         values |-> <<base_cost, p * 15, p * 15, p * 20, p * 10>>]

\* ------------------------------------------------------------------------
\* Data Processing
\* ------------------------------------------------------------------------
gender_mapping == [Female |-> 0, Male |-> 1]
smoker_mapping == [Yes |-> 1, No |-> 0]

region_mapping_shifted ==
    [northeast |-> <<0, 1, 0>>,
     northwest |-> <<0, 0, 1>>,
     southeast |-> <<1, 0, 0>>,
     southwest |-> <<0, 0, 0>>]

region_mapping ==
    [northeast |-> <<1, 0, 0>>,
     northwest |-> <<0, 1, 0>>,
     southeast |-> <<0, 0, 1>>,
     southwest |-> <<0, 0, 0>>]

\* The list display at lines 253-260, given the three looked-up codes.
InputListNoChildren(g, a, b, s, r, c) == <<g, a, b, s>> \o r

InputList(g, a, b, s, r, c) == <<g, a, b, s>> \o r \o <<c>>

\* The value of input_data, or the KeyError of the first failing lookup.
BuildInputData(g, a, b, s, r, c) ==
    LET gc == Subscript(gender_mapping, g)
        sc == Subscript(smoker_mapping, s)
        rc == Subscript(region_mapping, r)
    IN  IF gc.ok /\ sc.ok /\ rc.ok
        THEN [ok |-> TRUE, val |-> InputList(gc.val, a, b, sc.val, rc.val, c)]
        ELSE [ok |-> FALSE, val |-> "KeyError"]

\* ------------------------------------------------------------------------
\* Recommendations
\* ------------------------------------------------------------------------
Wellness == "Consider a wellness program to maintain a healthy BMI"
QuitSmoking == "Quitting smoking could significantly reduce your premium"
CheckUps == "Regular health check-ups recommended"
KeepItUp == "Continue maintaining your healthy lifestyle"

BuildRecommendationsElif(b, s, a) ==
    IF b > 250 THEN <<Wellness>>
    ELSE IF s = "Yes" THEN <<QuitSmoking>>
    ELSE IF a > 50 THEN <<CheckUps>>
    ELSE <<KeepItUp>>

BuildRecommendations(b, s, a) ==
    LET l0 == <<>>
        l1 == IF b > 250 THEN Append(l0, Wellness) ELSE l0
        l2 == IF s = "Yes" THEN Append(l1, QuitSmoking) ELSE l1
        l3 == IF a > 50 THEN Append(l2, CheckUps) ELSE l2
        l4 == IF l3 = <<>> THEN Append(l3, KeepItUp) ELSE l3
    IN  l4

\* ------------------------------------------------------------------------
\* The except clause
\* ------------------------------------------------------------------------
PredictRaisedFallback == [pc |-> "score", prediction |-> <<0>>]

\* model.predict raising: control leaves the try body, prediction stays unbound.
PredictRaised == [pc |-> "except", prediction |-> <<>>]

\* ------------------------------------------------------------------------
\* The script
\* ------------------------------------------------------------------------
FreshRun ==
    /\ model = 0
    /\ input_data = <<>>
    /\ smoker_arg = PyStr("")
    /\ prediction = <<>>
    /\ risk_score = <<>>
    /\ breakdown = <<>>
    /\ recommendations = <<>>
    /\ rendered = <<>>
    /\ errorShown = FALSE
    /\ raised = "none"
    /\ predictCalls = 0

Init ==
    /\ gender = "Female"
    /\ age = 25
    /\ bmi = 250
    /\ smoker = "No"
    /\ region = "northeast"
    /\ children = 0
    /\ button = FALSE
    /\ pc = "load_model"
    /\ cache = 0
    /\ loads = 0
    /\ modelUsed = {}
    /\ FreshRun

\* A widget interaction: the user changes one widget or presses the button,
\* and Streamlit reruns the script from the top; the previous run's globals
\* and page are discarded.  st.button returns True only on the rerun its
\* press triggers.
Rerun ==
    /\ pc = "idle"
    /\ \/ /\ gender' \in Genders
          /\ button' = FALSE
          /\ UNCHANGED <<age, bmi, smoker, region, children>>
       \/ /\ age' \in AgeSamples
          /\ button' = FALSE
          /\ UNCHANGED <<gender, bmi, smoker, region, children>>
       \/ /\ bmi' \in BmiSamples
          /\ button' = FALSE
          /\ UNCHANGED <<gender, age, smoker, region, children>>
       \/ /\ smoker' \in Smokers
          /\ button' = FALSE
          /\ UNCHANGED <<gender, age, bmi, region, children>>
       \/ /\ region' \in Regions
          /\ button' = FALSE
          /\ UNCHANGED <<gender, age, bmi, smoker, children>>
       \/ /\ children' \in ChildrenSamples
          /\ button' = FALSE
          /\ UNCHANGED <<gender, age, bmi, smoker, region>>
       \/ /\ button' = TRUE
          /\ UNCHANGED <<gender, age, bmi, smoker, region, children>>
    /\ pc' = "load_model"
    /\ model' = 0
    /\ input_data' = <<>>
    /\ smoker_arg' = PyStr("")
    /\ prediction' = <<>>
    /\ risk_score' = <<>>
    /\ breakdown' = <<>>
    /\ recommendations' = <<>>
    /\ rendered' = <<>>
    /\ errorShown' = FALSE
    /\ raised' = "none"
    /\ predictCalls' = 0
    /\ UNCHANGED process

\* model = load_model()
LoadModel ==
    /\ pc = "load_model"
    /\ \/ /\ CacheHit(cache)
          /\ model' = cache
          /\ pc' = "encode"
          /\ UNCHANGED <<cache, loads, raised>>
       \/ /\ ~CacheHit(cache)
          /\ loads < MaxLoads
          /\ loads' = loads + 1
          /\ cache' = loads + 1
          /\ model' = loads + 1
          /\ pc' = "encode"
          /\ UNCHANGED raised
       \/ /\ ~CacheHit(cache)
          /\ raised' = "LoadError"
          /\ pc' = "uncaught"
          /\ UNCHANGED <<cache, loads, model>>
    /\ UNCHANGED <<widgets, modelUsed, input_data, smoker_arg, results, rendered,
                   errorShown, predictCalls>>

\* input_data = [...]
Encode ==
    /\ pc = "encode"
    /\ LET e == BuildInputData(gender, age, bmi, smoker, region, children)
       IN  IF e.ok
           THEN /\ input_data' = e.val
                /\ pc' = "button"
                /\ UNCHANGED raised
           ELSE /\ raised' = e.val
                /\ pc' = "uncaught"
                /\ UNCHANGED input_data
    /\ UNCHANGED <<widgets, process, model, smoker_arg, results, rendered,
                   errorShown, predictCalls>>

\* if st.button(...):
Button ==
    /\ pc = "button"
    /\ pc' = IF button THEN "predict" ELSE "footer"
    /\ UNCHANGED <<widgets, process, model, input_data, smoker_arg, results,
                   rendered, errorShown, raised, predictCalls>>

\* prediction = model.predict([input_data])[0]
Predict ==
    /\ pc = "predict"
    /\ predictCalls' = predictCalls + 1
    /\ modelUsed' = modelUsed \cup {model}
    /\ \/ /\ \E p \in Predictions : prediction' = <<p>>
          /\ pc' = "score"
          /\ UNCHANGED raised
       \/ /\ prediction' = PredictRaised.prediction
          /\ pc' = PredictRaised.pc
          /\ raised' = "PredictError"
    /\ UNCHANGED <<widgets, cache, loads, model, input_data, smoker_arg, risk_score,
                   breakdown, recommendations, rendered, errorShown>>

\* risk_score = calculate_health_metrics(age, bmi, smoker == "Yes")
Score ==
    /\ pc = "score"
    /\ smoker_arg' = PyBool(PyEq(PyStr(smoker), PyStr("Yes")))
    /\ risk_score' = <<calculate_health_metrics(age, bmi, smoker_arg')>>
    /\ pc' = "render_prediction"
    /\ UNCHANGED <<widgets, process, model, input_data, prediction, breakdown,
                   recommendations, rendered, errorShown, raised, predictCalls>>

\* The headline: ${prediction:,.2f}
RenderPrediction ==
    /\ pc = "render_prediction"
    /\ rendered' = Append(rendered, "prediction")
    /\ pc' = "render_metrics"
    /\ UNCHANGED <<widgets, process, model, input_data, smoker_arg, results,
                   errorShown, raised, predictCalls>>

\* The three st.metric cards
RenderMetrics ==
    /\ pc = "render_metrics"
    /\ rendered' = rendered \o <<"monthly_cost", "risk_score", "cost_rating">>
    /\ pc' = "render_gauge"
    /\ UNCHANGED <<widgets, process, model, input_data, smoker_arg, results,
                   errorShown, raised, predictCalls>>

\* st.plotly_chart(create_gauge_chart(risk_score, ...))
RenderGauge ==
    /\ pc = "render_gauge"
    /\ rendered' = Append(rendered, "risk_gauge")
    /\ pc' = "render_breakdown"
    /\ UNCHANGED <<widgets, process, model, input_data, smoker_arg, results,
                   errorShown, raised, predictCalls>>

\* st.plotly_chart(create_cost_breakdown(prediction))
RenderBreakdown ==
    /\ pc = "render_breakdown"
    /\ breakdown' = <<create_cost_breakdown(prediction[1])>>
    /\ rendered' = Append(rendered, "cost_breakdown")
    /\ pc' = "render_recommendations"
    /\ UNCHANGED <<widgets, process, model, input_data, smoker_arg, prediction,
                   risk_score, recommendations, errorShown, raised, predictCalls>>

\* recommendations = [] ... for rec in recommendations: st.markdown(...)
RenderRecommendations ==
    /\ pc = "render_recommendations"
    /\ recommendations' = BuildRecommendations(bmi, smoker, age)
    /\ rendered' = Append(rendered, "recommendations")
    /\ pc' = "footer"
    /\ UNCHANGED <<widgets, process, model, input_data, smoker_arg, prediction,
                   risk_score, breakdown, errorShown, raised, predictCalls>>

RenderSteps == {"render_prediction", "render_metrics", "render_gauge",
                "render_breakdown", "render_recommendations"}

\* A Streamlit or Plotly call of the try body raises before emitting its
\* element; what earlier statements emitted stays on the page.
RenderRaises ==
    /\ pc \in RenderSteps
    /\ raised' = "RenderError"
    /\ pc' = "except"
    /\ UNCHANGED <<widgets, process, model, input_data, smoker_arg, results,
                   rendered, errorShown, predictCalls>>

\* except Exception as e: st.error(...)
Except ==
    /\ pc = "except"
    /\ errorShown' = TRUE
    /\ pc' = "footer"
    /\ UNCHANGED <<widgets, process, model, input_data, smoker_arg, results,
                   rendered, raised, predictCalls>>

\* The footer: the script run ends.
Footer ==
    /\ pc = "footer"
    /\ pc' = "idle"
    /\ UNCHANGED <<widgets, process, model, input_data, smoker_arg, results,
                   rendered, errorShown, raised, predictCalls>>

\* An exception outside the try block ends the script run.
ScriptAborted ==
    /\ pc = "uncaught"
    /\ pc' = "idle"
    /\ UNCHANGED <<widgets, process, model, input_data, smoker_arg, results,
                   rendered, errorShown, raised, predictCalls>>

Next ==
    \/ Rerun
    \/ LoadModel
    \/ Encode
    \/ Button
    \/ Predict
    \/ Score
    \/ RenderPrediction
    \/ RenderMetrics
    \/ RenderGauge
    \/ RenderBreakdown
    \/ RenderRecommendations
    \/ RenderRaises
    \/ Except
    \/ Footer
    \/ ScriptAborted

Spec == Init /\ [][Next]_vars

\* ------------------------------------------------------------------------
\* calculate_health_metrics as a function of its three parameters: every
\* age and BMI the sliders offer, and a str or a bool as third argument.
\* ------------------------------------------------------------------------
SmokerArgs == {PyStr("Yes"), PyStr("No"), PyBool(TRUE), PyBool(FALSE)}

InitScorer ==
    /\ gender = "Female"
    /\ age \in Ages
    /\ bmi \in Bmis
    /\ smoker = "No"
    /\ region = "northeast"
    /\ children = 0
    /\ button = FALSE
    /\ pc = "scorer"
    /\ cache = 0
    /\ loads = 0
    /\ modelUsed = {}
    /\ model = 0
    /\ input_data = <<>>
    /\ smoker_arg \in SmokerArgs
    /\ prediction = <<>>
    /\ risk_score = <<>>
    /\ breakdown = <<>>
    /\ recommendations = <<>>
    /\ rendered = <<>>
    /\ errorShown = FALSE
    /\ raised = "none"
    /\ predictCalls = 0

ApplyScorer ==
    /\ pc = "scorer"
    /\ risk_score' = <<calculate_health_metrics(age, bmi, smoker_arg)>>
    /\ pc' = "scored"
    /\ UNCHANGED <<widgets, process, model, input_data, smoker_arg, prediction,
                   breakdown, recommendations, rendered, errorShown, raised,
                   predictCalls>>

NextScorer == ApplyScorer

SpecScorer == InitScorer /\ [][NextScorer]_vars

\* ------------------------------------------------------------------------
\* The Data Processing statements applied to categorical values inside and
\* outside the three dicts' keys.
\* ------------------------------------------------------------------------
AnyGenders == Genders \cup {"Other"}
AnySmokers == Smokers \cup {"Maybe"}
AnyRegions == Regions \cup {"central"}

InitEncoder ==
    /\ gender \in AnyGenders
    /\ age \in AgeSamples
    /\ bmi \in BmiSamples
    /\ smoker \in AnySmokers
    /\ region \in AnyRegions
    /\ children \in ChildrenDomain
    /\ button \in BOOLEAN
    /\ pc = "encode"
    /\ cache = 1
    /\ loads = 1
    /\ modelUsed = {}
    /\ model = 1
    /\ input_data = <<>>
    /\ smoker_arg = PyStr("")
    /\ prediction = <<>>
    /\ risk_score = <<>>
    /\ breakdown = <<>>
    /\ recommendations = <<>>
    /\ rendered = <<>>
    /\ errorShown = FALSE
    /\ raised = "none"
    /\ predictCalls = 0

NextEncoder == Encode \/ ScriptAborted

SpecEncoder == InitEncoder /\ [][NextEncoder]_vars

\* ------------------------------------------------------------------------
\* Properties
\* ------------------------------------------------------------------------
BmiFactor(b) ==
    IF b < 185 THEN 10 ELSE IF b < 250 THEN 0 ELSE IF b < 300 THEN 15 ELSE 25

SmokerFactor(s) == IF s = "Yes" THEN 50 ELSE 0

StatedScore(a, b, s) == Min((a \div 10) * 5 + BmiFactor(b) + SmokerFactor(s), 100)

\* C1: the risk score computed for a request (and shown in the Risk Score
\* metric and the gauge) equals min(floor(age/10)*5 + bmiFactor +
\* smokerFactor, 100), smokerFactor being 50 for a smoker and 0 otherwise.
C1_RiskScoreIsStatedFormula ==
    risk_score # <<>> => risk_score[1] = StatedScore(age, bmi, smoker)

\* C2 as stated: the feature vector passed to the model has exactly 7
\* elements, each numeric.
C2_FeatureVectorHasSeven ==
    input_data # <<>> =>
        /\ Len(input_data) = 7
        /\ \A i \in 1..Len(input_data) : input_data[i] \in Int

\* C2 amended: the feature vector passed to the model has exactly 8
\* elements, each numeric.
C2_FeatureVectorHasEight ==
    input_data # <<>> =>
        /\ Len(input_data) = 8
        /\ \A i \in 1..Len(input_data) : input_data[i] \in Int

C2_Witness ==
    /\ pc = "score"
    /\ Len(input_data) = 8
    /\ predictCalls = 1

\* C3: the feature vector is gender code (Female 0, Male 1), age, bmi,
\* smoker code (Yes 1, No 0), northeast flag, northwest flag, southeast flag,
\* children, in that order; exactly the flag of the region is 1 for the three
\* flagged regions and all three flags are 0 for southwest.
C3_FeatureVectorLayout ==
    input_data # <<>> =>
        /\ Len(input_data) >= 8
        /\ input_data[1] = (IF gender = "Male" THEN 1 ELSE 0)
        /\ input_data[2] = age
        /\ input_data[3] = bmi
        /\ input_data[4] = (IF smoker = "Yes" THEN 1 ELSE 0)
        /\ input_data[5] = (IF region = "northeast" THEN 1 ELSE 0)
        /\ input_data[6] = (IF region = "northwest" THEN 1 ELSE 0)
        /\ input_data[7] = (IF region = "southeast" THEN 1 ELSE 0)
        /\ input_data[8] = children
        /\ input_data[5] + input_data[6] + input_data[7]
               = (IF region = "southwest" THEN 0 ELSE 1)

C3_Witness ==
    /\ input_data # <<>>
    /\ gender = "Male"
    /\ smoker = "Yes"
    /\ region = "southeast"
    /\ children = MaxChildren

\* C4: for a prediction p >= 0 the cost breakdown is five values labelled
\* Base Cost, Age Factor, BMI Factor, Smoking Factor, Region Factor, equal
\* to 0.4p, 0.15p, 0.15p, 0.2p and 0.1p (here in hundredths of p's unit),
\* and they sum to p.
C4_BreakdownIsFixedShares ==
    (breakdown # <<>> /\ prediction # <<>> /\ prediction[1] >= 0) =>
        LET p == prediction[1]
            v == breakdown[1].values
        IN  /\ breakdown[1].labels = <<"Base Cost", "Age Factor", "BMI Factor",
                                       "Smoking Factor", "Region Factor">>
            /\ Len(v) = 5
            /\ 10 * v[1] = 4 * (100 * p)
            /\ 100 * v[2] = 15 * (100 * p)
            /\ 100 * v[3] = 15 * (100 * p)
            /\ 10 * v[4] = 2 * (100 * p)
            /\ 10 * v[5] = 1 * (100 * p)
            /\ v[1] + v[2] + v[3] + v[4] + v[5] = 100 * p

C4_Witness ==
    /\ breakdown # <<>>
    /\ prediction = <<9999>>
    /\ "cost_breakdown" \in Range(rendered)

\* C5: the recommendation list holds the wellness line iff bmi > 25, the
\* quit-smoking line iff smoker is Yes and the check-up line iff age > 50,
\* each at most once and in that order; the default line appears iff none
\* of the three rules matches, and then it is the only line.
C5_RecommendationRules ==
    "recommendations" \in Range(rendered) =>
        LET recs == Range(recommendations)
            n == (IF bmi > 250 THEN 1 ELSE 0) + (IF smoker = "Yes" THEN 1 ELSE 0)
                 + (IF age > 50 THEN 1 ELSE 0)
        IN  /\ (Wellness \in recs) <=> (bmi > 250)
            /\ (QuitSmoking \in recs) <=> (smoker = "Yes")
            /\ (CheckUps \in recs) <=> (age > 50)
            /\ (KeepItUp \in recs) <=> (n = 0)
            /\ Len(recommendations) = (IF n = 0 THEN 1 ELSE n)
            /\ \A i, j \in 1..Len(recommendations) :
                  (/\ recommendations[i] \in {Wellness, QuitSmoking}
                   /\ recommendations[j] \in {QuitSmoking, CheckUps}
                   /\ recommendations[i] # recommendations[j]) => i < j

C5_Witness ==
    /\ "recommendations" \in Range(rendered)
    /\ bmi = 300
    /\ smoker = "No"
    /\ age = 55
    /\ recommendations = <<Wellness, CheckUps>>

ResultSet == {"prediction", "risk_score", "cost_breakdown", "recommendations"}

\* C6: at the end of a request in which the button was pressed, either all
\* of prediction, risk score, cost breakdown and recommendations have been
\* rendered or none of them has, whichever step failed.
C6_AllOrNothing ==
    (pc = "idle" /\ button) =>
        \/ ResultSet \subseteq Range(rendered)
        \/ ResultSet \cap Range(rendered) = {}

\* C7: when model.predict raises, the error is caught and a failure message
\* shown, predict is called once only (no retry), no fallback prediction is
\* bound, and no prediction, metric, chart or recommendation is rendered.
C7_PredictFailureRendersNothing ==
    raised = "PredictError" =>
        /\ pc \in {"except", "footer", "idle"}
        /\ (pc \in {"footer", "idle"} => errorShown)
        /\ predictCalls = 1
        /\ prediction = <<>>
        /\ risk_score = <<>>
        /\ breakdown = <<>>
        /\ recommendations = <<>>
        /\ rendered = <<>>

C7_Witness ==
    /\ raised = "PredictError"
    /\ pc = "idle"
    /\ errorShown
    /\ rendered = <<>>

OutOfDomain ==
    \/ gender \notin Genders
    \/ smoker \notin Smokers
    \/ region \notin Regions

\* C8: with gender, smoker or region outside its enumerated domain the
\* encoding statements fail with an error that reaches the caller (the
\* KeyError of the dict subscript, outside any try block) and bind no
\* feature vector; no default code is substituted.
C8_OutOfDomainRaises ==
    (OutOfDomain /\ pc # "encode") =>
        /\ raised = "KeyError"
        /\ pc \in {"uncaught", "idle"}
        /\ input_data = <<>>
        /\ ~errorShown

C8_Witness ==
    /\ region = "central"
    /\ gender \in Genders
    /\ smoker \in Smokers
    /\ raised = "KeyError"
    /\ pc = "idle"
    /\ input_data = <<>>

\* C9: for every age in 18..100, BMI in 15.0..50.0 and smoker argument, the
\* score returned by calculate_health_metrics is an integer with
\* 0 <= score <= 100.
C9_ScoreInRange ==
    risk_score # <<>> =>
        /\ risk_score[1] \in Int
        /\ 0 <= risk_score[1]
        /\ risk_score[1] <= 100

C9_Witness ==
    /\ pc = "scored"
    /\ age = MaxAge
    /\ bmi = MaxBmi
    /\ smoker_arg = PyStr("Yes")
    /\ risk_score = <<100>>

\* C10: over any sequence of reruns the model artifact is unpickled at most
\* once, every model.predict call is made on that one cached object, and the
\* script global `model` is never bound to anything else.
C10_ModelLoadedOnce ==
    /\ loads <= 1
    /\ Cardinality(modelUsed) <= 1
    /\ modelUsed \subseteq {cache}
    /\ 0 \notin modelUsed
    /\ (model # 0 => model = cache)

C10_Witness ==
    /\ loads = 1
    /\ modelUsed = {1}
    /\ pc = "predict"
    /\ predictCalls = 0
    /\ model = 1
    /\ cache = 1

====
